---- MODULE Spec2Model ----
(***************************************************************************)
(* Reservation / seat-allocation core of Sistema-Reservas-Cursos.          *)
(*                                                                         *)
(* The store holds the courses and reservations collections.  Every HTTP   *)
(* request runs its Express handler; each `await` on the store is one      *)
(* step, so handlers of different requests interleave at exactly the       *)
(* points where Node's event loop can switch between them.  A Mongoose     *)
(* document loaded by a handler is a private snapshot; save() of a loaded  *)
(* document first runs the schema validators on the snapshot and then      *)
(* writes the modified paths with $set.                                    *)
(***************************************************************************)
EXTENDS Integers, FiniteSets, Sequences, Bags, TLC

(* ---- bounds of the model ---- *)
MaxReq == 2         \* requests in flight at the same time
MaxCupo == 2        \* largest cupoMaximo of a course
MaxTime == 3        \* last instant of the clock
MaxDocs == 2        \* reservation documents per (user, course) the store can hold
FechaInicioCurso == 3   \* the instant at which the course starts
MaxVersion == 2     \* largest tokenVersion a user reaches

(* ---- program constants ---- *)
DiasAntes == 2
CupoMinimo == 1
CupoLimite == 1000
CalificacionMinima == 1
CalificacionMaxima == 5

Usuarios == {"u1", "adm"}
Cursos == {"c1"}
Motivos == {"m1"}
NullDate == -1
\* ratings a request may carry, and the rating of a reservation that has none
Calificaciones == {0, 1, 5, 6}
NoCalificacion == 0
Comentarios == {"k1"}

rol(u) == IF u = "adm" THEN "admin" ELSE "usuario"

\* A reservation _id is opaque: a document is named by the user and course of
\* the request that inserted it and an ordinal.
ResIds == Usuarios \X Cursos \X (0 .. MaxDocs - 1)
NoId == <<"", "", 0>>

VARIABLES
    now,            \* the clock read by new Date(), in days
    courses,        \* courses collection: course id -> document
    reservations,   \* reservations collection: _id -> document
    req,            \* bag of requests: handlers in flight and responses being sent
    users,          \* users collection: user id -> document
    tokens          \* the JWT payloads <<userId, tokenVersion>> issued so far

vars == <<now, courses, reservations, req, users, tokens>>

NoUser == [existe |-> FALSE, activo |-> FALSE, tokenVersion |-> 0]

NoCourse ==
    [existe |-> FALSE, cupoMaximo |-> 0, cupoDisponible |-> 0, estado |-> "",
     fechaInicio |-> 0, precio |-> 0]

NoRes ==
    [usuario |-> "", curso |-> "", estado |-> "", fechaCancelacion |-> NullDate,
     motivoCancelacion |-> "", precioPagado |-> 0,
     calificacion |-> NoCalificacion, comentario |-> ""]

\* A handler's locals.  motivo, calificacion, comentario and the pair campo,
\* valor (a field of the course and its new value) are the request's body;
\* modificado tells that Object.assign changed the loaded course; user and
\* tokenVersion are the payload of the request's token and objetivo is the
\* user that an admin's request names; course, res and usr are the documents
\* as the handler read them; ahora is
\* the clock it read in its guard; inserted, resWritten, cupoWritten and delta
\* record what the handler wrote to the store.
NewReq ==
    [op |-> "none", pc |-> "new", user |-> "", curso |-> "", rid |-> NoId,
     motivo |-> "", calificacion |-> NoCalificacion, comentario |-> "",
     campo |-> "", valor |-> 0, modificado |-> FALSE,
     tokenVersion |-> 0, usr |-> NoUser, objetivo |-> "",
     course |-> NoCourse, res |-> NoRes, status |-> 0,
     ahora |-> NullDate, inserted |-> NoId, resWritten |-> FALSE,
     cupoWritten |-> FALSE, delta |-> 0]

Requests == BagToSet(req)

\* a request arrives
Add(q) ==
    /\ BagCardinality(req) < MaxReq
    /\ req' = req (+) SetToBag({q})

\* the handler q moves on as q2
Put(q, q2) == req' = (req (-) SetToBag({q})) (+) SetToBag({q2})

Respond(q, code) == Put(q, [q EXCEPT !.pc = "done", !.status = code])

(* ---- Course model ---- *)

\* a check of the course that does not look at the seats left
sePuedeReservarSinCupo(course, ahora) ==
    /\ course.estado = "activo"
    /\ course.fechaInicio > ahora

\* courseSchema.methods.sePuedeReservar
sePuedeReservar(course, ahora) ==
    /\ course.estado = "activo"
    /\ course.fechaInicio > ahora
    /\ course.cupoDisponible > 0

\* Schema validators that run on course.save(): cupoMaximo min/max,
\* cupoDisponible min 0 and <= cupoMaximo, fechaInicio in the future.
CourseValid(course, ahora) ==
    /\ course.cupoMaximo >= CupoMinimo
    /\ course.cupoMaximo <= CupoLimite
    /\ course.cupoDisponible >= 0
    /\ course.cupoDisponible <= course.cupoMaximo
    /\ course.fechaInicio > ahora

(* ---- Reservation model ---- *)

\* reservationSchema.virtual('estaActiva')
estaActiva(res) == res.estado = "confirmada" \/ res.estado = "pendiente"

\* reservationSchema.statics.userHasReservation
userHasReservation(userId, courseId) ==
    \E i \in DOMAIN reservations :
        /\ reservations[i].usuario = userId
        /\ reservations[i].curso = courseId
        /\ reservations[i].estado \in {"pendiente", "confirmada"}

\* reservationSchema.pre('save') of a new document: an active reservation of
\* the same user and course exists
preSaveFindsActive(userId, courseId) ==
    \E i \in DOMAIN reservations :
        /\ reservations[i].usuario = userId
        /\ reservations[i].curso = courseId
        /\ reservations[i].estado \in {"pendiente", "confirmada"}

\* a guard of cancellations that does not look at the reservation's state
sePuedeCancelarAnyState(res, course, ahora) ==
    /\ course.existe
    /\ ahora < course.fechaInicio - DiasAntes

\* a guard of cancellations that does not look at the clock
sePuedeCancelarAnyTime(res, course, ahora) ==
    /\ course.existe
    /\ res.estado = "confirmada"

\* reservationSchema.virtual('sePuedeCancelar'); course is the populated curso
sePuedeCancelar(res, course, ahora) ==
    /\ course.existe
    /\ res.estado = "confirmada"
    /\ ahora < course.fechaInicio - DiasAntes

\* a store without the unique index
UniqueIndexOff(userId, courseId) == FALSE

\* a unique index over the active reservations only
UniqueIndexActiveOnly(userId, courseId) ==
    \E i \in DOMAIN reservations :
        /\ reservations[i].usuario = userId
        /\ reservations[i].curso = courseId
        /\ reservations[i].estado \in {"pendiente", "confirmada"}

\* a unique index that leaves cancelled reservations out
UniqueIndexNotCancelled(userId, courseId) ==
    \E i \in DOMAIN reservations :
        /\ reservations[i].usuario = userId
        /\ reservations[i].curso = courseId
        /\ reservations[i].estado # "cancelada"

\* unique index {usuario: 1, curso: 1}: the insert is refused (E11000)
UniqueIndexViolated(userId, courseId) ==
    \E i \in DOMAIN reservations :
        /\ reservations[i].usuario = userId
        /\ reservations[i].curso = courseId

\* the _id of a new document of this user and course
NewId(userId, courseId) ==
    <<userId, courseId,
      Cardinality({i \in DOMAIN reservations : i[1] = userId /\ i[2] = courseId})>>

(* ---- POST /api/reservations ---- *)

\* a new reservation that is born confirmed
NuevaReservaConfirmada(u, c, course) ==
    [NoRes EXCEPT !.usuario = u, !.curso = c, !.estado = "confirmada",
                  !.precioPagado = course.precio]

\* new Reservation({usuario, curso, precioPagado: course.precio}) with the
\* schema's defaults: estado pendiente, fechaCancelacion null, no calificacion
NuevaReserva(u, c, course) ==
    [NoRes EXCEPT !.usuario = u, !.curso = c, !.estado = "pendiente",
                  !.precioPagado = course.precio]

\* Course.findById, then the checks on the loaded document: the handler q
\* after its first await
CreateFound(q) ==
    LET course == courses[q.curso]
        q2 == [q EXCEPT !.course = course, !.ahora = now]
    IN IF ~course.existe THEN [q EXCEPT !.pc = "done", !.status = 404]
       ELSE IF course.estado # "activo" THEN [q2 EXCEPT !.pc = "done", !.status = 400]
       ELSE IF ~sePuedeReservar(course, now) THEN [q2 EXCEPT !.pc = "done", !.status = 400]
       ELSE [q2 EXCEPT !.pc = "c_exists"]

\* The request arrives and runs up to the end of its first await
CreateFind(u, c) ==
    /\ Add(CreateFound([NewReq EXCEPT !.op = "create", !.user = u, !.curso = c]))
    /\ UNCHANGED <<users, tokens, now, courses, reservations>>

\* The same step of a request that was sent earlier and is waiting to be served
CreateFindSent(q) ==
    /\ q.op = "create"
    /\ q.pc = "new"
    /\ Put(q, CreateFound(q))
    /\ UNCHANGED <<users, tokens, now, courses, reservations>>

\* Reservation.userHasReservation, then new Reservation({...})
CreateUserHas(q) ==
    /\ q.pc = "c_exists"
    /\ IF userHasReservation(q.user, q.curso)
       THEN Respond(q, 409)
       ELSE Put(q, [q EXCEPT !.pc = "c_presave",
                             !.res = NuevaReserva(q.user, q.curso, q.course)])
    /\ UNCHANGED <<users, tokens, now, courses, reservations>>

\* reservation.save(): the pre('save') query
CreatePreSave(q) ==
    /\ q.pc = "c_presave"
    /\ IF preSaveFindsActive(q.user, q.curso)
       THEN Respond(q, 500)
       ELSE Put(q, [q EXCEPT !.pc = "c_insert"])
    /\ UNCHANGED <<users, tokens, now, courses, reservations>>

\* reservation.save(): the insert, checked against the unique index
CreateInsert(q) ==
    /\ q.pc = "c_insert"
    /\ IF UniqueIndexViolated(q.user, q.curso)
       THEN /\ Respond(q, 400)
            /\ UNCHANGED reservations
       ELSE LET id == NewId(q.user, q.curso) IN
            /\ id \in ResIds
            /\ reservations' = reservations @@ (id :> q.res)
            /\ Put(q, [q EXCEPT !.pc = "c_cupo", !.inserted = id])
    /\ UNCHANGED <<users, tokens, now, courses>>

\* course.reservarCupo() on the document loaded by CreateFind, then the response
CreateReservarCupo(q) ==
    /\ q.pc = "c_cupo"
    /\ LET c == q.curso
           nuevo == [q.course EXCEPT !.cupoDisponible = @ - 1]
       IN IF q.course.cupoDisponible > 0
          THEN IF ~CourseValid(nuevo, now)
               THEN /\ Respond(q, 400)
                    /\ UNCHANGED courses
               ELSE IF ~courses[c].existe
               THEN /\ Respond(q, 500)
                    /\ UNCHANGED courses
               ELSE /\ courses' = [courses EXCEPT ![c].cupoDisponible = nuevo.cupoDisponible]
                    /\ Put(q, [q EXCEPT !.pc = "done", !.status = 201,
                                        !.cupoWritten = TRUE,
                                        !.delta = nuevo.cupoDisponible - courses[c].cupoDisponible])
          ELSE /\ Respond(q, 500)
               /\ UNCHANGED courses
    /\ UNCHANGED <<users, tokens, now, reservations>>

(* ---- PUT /api/reservations/:id/cancel ---- *)

\* a check of the requester that lets every authenticated user through
CualquierUsuario(u, res) == TRUE

\* the requester owns the reservation or is an admin
EsPropietarioOAdmin(u, res) == res.usuario = u \/ rol(u) = "admin"

\* The request arrives: Reservation.findById
CancelFind(u, id, m) ==
    /\ LET q == [NewReq EXCEPT !.op = "cancel", !.user = u, !.rid = id, !.motivo = m]
       IN IF id \notin DOMAIN reservations
          THEN Add([q EXCEPT !.pc = "done", !.status = 404])
          ELSE Add([q EXCEPT !.pc = "x_populate", !.res = reservations[id],
                             !.curso = reservations[id].curso])
    /\ UNCHANGED <<users, tokens, now, courses, reservations>>

\* The same step of a cancel request that was sent earlier and is waiting to
\* be served
CancelFindSent(q) ==
    /\ q.op = "cancel"
    /\ q.pc = "new"
    /\ IF q.rid \notin DOMAIN reservations
       THEN Respond(q, 404)
       ELSE Put(q, [q EXCEPT !.pc = "x_populate", !.res = reservations[q.rid],
                             !.curso = reservations[q.rid].curso])
    /\ UNCHANGED <<users, tokens, now, courses, reservations>>

\* .populate('curso'), the owner-or-admin check, and reservation.cancelar()
\* up to its save()
CancelPopulate(q) ==
    /\ q.pc = "x_populate"
    /\ LET course == courses[q.curso] IN
         IF ~EsPropietarioOAdmin(q.user, q.res)
         THEN Respond(q, 403)
         ELSE IF ~sePuedeCancelar(q.res, course, now)
         THEN Put(q, [q EXCEPT !.pc = "done", !.status = 400,
                               !.course = course, !.ahora = now])
         ELSE Put(q, [q EXCEPT !.pc = "x_save", !.course = course, !.ahora = now])
    /\ UNCHANGED <<users, tokens, now, courses, reservations>>

\* reservation.cancelar(): save() writes estado, fechaCancelacion, motivoCancelacion
CancelSave(q) ==
    /\ q.pc = "x_save"
    /\ reservations' = [reservations EXCEPT
                            ![q.rid].estado = "cancelada",
                            ![q.rid].fechaCancelacion = q.ahora,
                            ![q.rid].motivoCancelacion = q.motivo]
    /\ Put(q, [q EXCEPT !.pc = "x_cupo", !.resWritten = TRUE])
    /\ UNCHANGED <<users, tokens, now, courses>>

\* reservation.curso.liberarCupo() on the populated course, then the response;
\* every error is caught by the handler's try/catch and answered with 400
CancelLiberarCupo(q) ==
    /\ q.pc = "x_cupo"
    /\ LET c == q.curso
           nuevo == [q.course EXCEPT !.cupoDisponible = @ + 1]
       IN IF q.course.cupoDisponible < q.course.cupoMaximo
          THEN IF ~CourseValid(nuevo, now) \/ ~courses[c].existe
               THEN /\ Respond(q, 400)
                    /\ UNCHANGED courses
               ELSE /\ courses' = [courses EXCEPT ![c].cupoDisponible = nuevo.cupoDisponible]
                    /\ Put(q, [q EXCEPT !.pc = "done", !.status = 200,
                                        !.cupoWritten = TRUE,
                                        !.delta = nuevo.cupoDisponible - courses[c].cupoDisponible])
          ELSE /\ Respond(q, 400)
               /\ UNCHANGED courses
    /\ UNCHANGED <<users, tokens, now, reservations>>

(* ---- PUT /api/reservations/admin/:id/confirm ---- *)

\* The request arrives: requireAdmin, Reservation.findById,
\* reservation.confirmar() up to its save()
ConfirmFind(u, id) ==
    /\ LET q == [NewReq EXCEPT !.op = "confirm", !.user = u, !.rid = id]
       IN IF rol(u) # "admin"
          THEN Add([q EXCEPT !.pc = "done", !.status = 403])
          ELSE IF id \notin DOMAIN reservations
          THEN Add([q EXCEPT !.pc = "done", !.status = 404])
          ELSE IF reservations[id].estado # "pendiente"
          THEN Add([q EXCEPT !.pc = "done", !.status = 400, !.res = reservations[id]])
          ELSE Add([q EXCEPT !.pc = "f_save", !.res = reservations[id]])
    /\ UNCHANGED <<users, tokens, now, courses, reservations>>

\* reservation.confirmar(): save() writes estado
ConfirmSave(q) ==
    /\ q.pc = "f_save"
    /\ reservations' = [reservations EXCEPT ![q.rid].estado = "confirmada"]
    /\ Put(q, [q EXCEPT !.pc = "done", !.status = 200, !.resWritten = TRUE])
    /\ UNCHANGED <<users, tokens, now, courses>>

(* ---- PUT /api/reservations/admin/:id/complete ---- *)

\* The request arrives: requireAdmin, Reservation.findById,
\* reservation.completar() up to its save()
CompleteFind(u, id) ==
    /\ LET q == [NewReq EXCEPT !.op = "complete", !.user = u, !.rid = id]
       IN IF rol(u) # "admin"
          THEN Add([q EXCEPT !.pc = "done", !.status = 403])
          ELSE IF id \notin DOMAIN reservations
          THEN Add([q EXCEPT !.pc = "done", !.status = 404])
          ELSE IF reservations[id].estado # "confirmada"
          THEN Add([q EXCEPT !.pc = "done", !.status = 400, !.res = reservations[id]])
          ELSE Add([q EXCEPT !.pc = "p_save", !.res = reservations[id]])
    /\ UNCHANGED <<users, tokens, now, courses, reservations>>

\* reservation.completar(): save() writes estado
CompleteSave(q) ==
    /\ q.pc = "p_save"
    /\ reservations' = [reservations EXCEPT ![q.rid].estado = "completada"]
    /\ Put(q, [q EXCEPT !.pc = "done", !.status = 200, !.resWritten = TRUE])
    /\ UNCHANGED <<users, tokens, now, courses>>

(* ---- PUT /api/reservations/:id/rate ---- *)

\* a body validator that lets every rating through
calificacionCualquiera(cal) == TRUE

\* the requester owns the reservation
EsPropietario(u, res) == res.usuario = u

\* body('calificacion').isInt({min: 1, max: 5})
calificacionValida(cal) == cal >= CalificacionMinima /\ cal <= CalificacionMaxima

\* The request arrives: the body validators, Reservation.findById, the owner
\* check, and reservation.calificar() up to its save()
RateFind(u, id, cal, com) ==
    /\ LET q == [NewReq EXCEPT !.op = "rate", !.user = u, !.rid = id,
                               !.calificacion = cal, !.comentario = com]
       IN IF ~calificacionValida(cal)
          THEN Add([q EXCEPT !.pc = "done", !.status = 400])
          ELSE IF id \notin DOMAIN reservations
          THEN Add([q EXCEPT !.pc = "done", !.status = 404])
          ELSE IF ~EsPropietario(u, reservations[id])
          THEN Add([q EXCEPT !.pc = "done", !.status = 403, !.res = reservations[id]])
          ELSE IF reservations[id].estado # "completada"
          THEN Add([q EXCEPT !.pc = "done", !.status = 400, !.res = reservations[id]])
          ELSE IF cal < CalificacionMinima \/ cal > CalificacionMaxima
          THEN Add([q EXCEPT !.pc = "done", !.status = 400, !.res = reservations[id]])
          ELSE Add([q EXCEPT !.pc = "r_save", !.res = reservations[id]])
    /\ UNCHANGED <<users, tokens, now, courses, reservations>>

\* reservation.calificar(): save() writes calificacion and comentario
RateSave(q) ==
    /\ q.pc = "r_save"
    /\ reservations' = [reservations EXCEPT ![q.rid].calificacion = q.calificacion,
                                            ![q.rid].comentario = q.comentario]
    /\ Put(q, [q EXCEPT !.pc = "done", !.status = 200, !.resWritten = TRUE])
    /\ UNCHANGED <<users, tokens, now, courses>>

(* ---- PUT /api/courses/:id ---- *)

\* the fields of a course that the body of an update sets, and their values
Campos == {"cupoMaximo", "cupoDisponible"}
Valores == 0 .. MaxCupo

\* The request arrives: requireAdmin, the body validators (cupoMaximo is an
\* integer from 1 to 1000; cupoDisponible has none), Course.findById and
\* Object.assign(course, req.body)
UpdateFind(u, c, f, v) ==
    /\ LET q == [NewReq EXCEPT !.op = "update", !.user = u, !.curso = c,
                               !.campo = f, !.valor = v]
       IN IF rol(u) # "admin"
          THEN Add([q EXCEPT !.pc = "done", !.status = 403])
          ELSE IF f = "cupoMaximo" /\ (v < CupoMinimo \/ v > CupoLimite)
          THEN Add([q EXCEPT !.pc = "done", !.status = 400])
          ELSE IF ~courses[c].existe
          THEN Add([q EXCEPT !.pc = "done", !.status = 404])
          ELSE Add([q EXCEPT !.pc = "u_save",
                             !.course = [courses[c] EXCEPT ![f] = v],
                             !.modificado = (courses[c][f] # v)])
    /\ UNCHANGED <<users, tokens, now, reservations>>
    /\ UNCHANGED courses

\* course.save(): the schema validators on the changed copy, then the write
\* of the modified path; a ValidationError is answered 400
UpdateSave(q) ==
    /\ q.pc = "u_save"
    /\ LET c == q.curso IN
         IF ~CourseValid(q.course, now)
         THEN /\ Respond(q, 400)
              /\ UNCHANGED courses
         ELSE IF ~q.modificado
         THEN /\ Respond(q, 200)
              /\ UNCHANGED courses
         ELSE IF ~courses[c].existe
         THEN /\ Respond(q, 500)
              /\ UNCHANGED courses
         ELSE /\ courses' = [courses EXCEPT ![c][q.campo] = q.valor]
              /\ Put(q, [q EXCEPT !.pc = "done", !.status = 200,
                                  !.cupoWritten = (q.campo = "cupoDisponible")])
    /\ UNCHANGED <<users, tokens, now, reservations>>

(* ---- POST /api/courses ---- *)

\* a path of a new document that was given no value
SinValor == -1

\* the states a new course is created in
EstadosNuevos == {"activo", "borrador"}

\* the `required` validator of a path
requerido(v) == v # SinValor

\* The validators that run on save() of a new course: cupoDisponible is
\* required, then the validators of the paths
NewCourseValid(course, ahora) ==
    /\ requerido(course.cupoDisponible)
    /\ CourseValid(course, ahora)

\* courseSchema.pre('save'): a new course without cupoDisponible (or with 0)
\* gets cupoDisponible = cupoMaximo
preSaveCourse(course) ==
    IF course.cupoDisponible = SinValor \/ course.cupoDisponible = 0
    THEN [course EXCEPT !.cupoDisponible = course.cupoMaximo]
    ELSE course

\* The request arrives: requireAdmin, the body validators, the check of the
\* dates, and new Course({...}) without cupoDisponible; c is the new _id
PostCourse(u, c, m, e) ==
    /\ ~courses[c].existe
    /\ LET q == [NewReq EXCEPT !.op = "newcourse", !.user = u, !.curso = c,
                               !.campo = "cupoMaximo", !.valor = m]
       IN IF rol(u) # "admin"
          THEN Add([q EXCEPT !.pc = "done", !.status = 403])
          ELSE IF m < CupoMinimo \/ m > CupoLimite
          THEN Add([q EXCEPT !.pc = "done", !.status = 400])
          ELSE IF FechaInicioCurso <= now
          THEN Add([q EXCEPT !.pc = "done", !.status = 400, !.ahora = now])
          ELSE Add([q EXCEPT !.pc = "n_save", !.ahora = now,
                             !.course = [existe |-> TRUE, cupoMaximo |-> m,
                                         cupoDisponible |-> SinValor, estado |-> e,
                                         fechaInicio |-> FechaInicioCurso,
                                         precio |-> 1]])
    /\ UNCHANGED <<users, tokens, now, courses, reservations>>

\* course.save() of the new course: validation runs before the pre('save')
\* hook; a ValidationError is answered 400; otherwise the hook runs and the
\* document is inserted
PostCourseSave(q) ==
    /\ q.pc = "n_save"
    /\ IF ~NewCourseValid(q.course, now)
       THEN /\ Respond(q, 400)
            /\ UNCHANGED courses
       ELSE /\ ~courses[q.curso].existe
            /\ courses' = [courses EXCEPT ![q.curso] = preSaveCourse(q.course)]
            /\ Respond(q, 201)
    /\ UNCHANGED <<users, tokens, now, reservations>>

(* ---- DELETE /api/courses/:id ---- *)

\* The request arrives: requireAdmin and Course.findById
DeleteFind(u, c) ==
    /\ LET q == [NewReq EXCEPT !.op = "delete", !.user = u, !.curso = c]
       IN IF rol(u) # "admin"
          THEN Add([q EXCEPT !.pc = "done", !.status = 403])
          ELSE IF ~courses[c].existe
          THEN Add([q EXCEPT !.pc = "done", !.status = 404])
          ELSE Add([q EXCEPT !.pc = "d_delete", !.course = courses[c]])
    /\ UNCHANGED <<users, tokens, now, courses, reservations>>

\* Course.findByIdAndDelete, then the response
DeleteCourse(q) ==
    /\ q.pc = "d_delete"
    /\ courses' = [courses EXCEPT ![q.curso] = NoCourse]
    /\ Respond(q, 200)
    /\ UNCHANGED <<users, tokens, now, reservations>>

(* ---- authentication ---- *)

\* authenticateToken lets the token <<u, v>> through: the user exists, is
\* active, and the token's tokenVersion is the user's
authenticateToken(u, v) ==
    /\ users[u].existe
    /\ users[u].activo
    /\ v = users[u].tokenVersion

\* POST /api/auth/login arrives: User.findOne, the active check,
\* compararContraseña (ok tells that the password is right) and generateToken
LoginFind(u, ok) ==
    /\ LET q == [NewReq EXCEPT !.op = "login", !.user = u]
       IN IF ~users[u].existe
          THEN Add([q EXCEPT !.pc = "done", !.status = 401])
          ELSE IF ~users[u].activo
          THEN Add([q EXCEPT !.pc = "done", !.status = 401, !.usr = users[u]])
          ELSE IF ~ok
          THEN Add([q EXCEPT !.pc = "done", !.status = 401, !.usr = users[u]])
          ELSE Add([q EXCEPT !.pc = "l_acceso", !.usr = users[u],
                             !.tokenVersion = users[u].tokenVersion])
    /\ UNCHANGED <<users, tokens, now, courses, reservations>>

\* user.actualizarUltimoAcceso(), then the response hands the token out
LoginAcceso(q) ==
    /\ q.pc = "l_acceso"
    /\ IF ~users[q.user].existe
       THEN /\ Respond(q, 500)
            /\ UNCHANGED tokens
       ELSE /\ tokens' = tokens \cup {<<q.user, q.tokenVersion>>}
            /\ Respond(q, 200)
    /\ UNCHANGED <<users, now, courses, reservations>>

\* GET /api/auth/me with the token <<u, v>>: authenticateToken and the response
MeAuth(u, v) ==
    /\ <<u, v>> \in tokens
    /\ LET q == [NewReq EXCEPT !.op = "me", !.user = u, !.tokenVersion = v,
                               !.usr = users[u]]
       IN IF ~authenticateToken(u, v)
          THEN Add([q EXCEPT !.pc = "done", !.status = 401])
          ELSE Add([q EXCEPT !.pc = "done", !.status = 200])
    /\ UNCHANGED <<users, tokens, now, courses, reservations>>

\* POST /api/auth/logout with the token <<u, v>> arrives: authenticateToken
LogoutAuth(u, v) ==
    /\ <<u, v>> \in tokens
    /\ LET q == [NewReq EXCEPT !.op = "logout", !.user = u, !.tokenVersion = v,
                               !.usr = users[u]]
       IN IF ~authenticateToken(u, v)
          THEN Add([q EXCEPT !.pc = "done", !.status = 401])
          ELSE /\ users[u].tokenVersion < MaxVersion
               /\ Add([q EXCEPT !.pc = "o_save"])
    /\ UNCHANGED <<users, tokens, now, courses, reservations>>

\* req.user.invalidarTokens(): tokenVersion += 1 on the document that
\* authenticateToken loaded, and save()
LogoutSave(q) ==
    /\ q.pc = "o_save"
    /\ IF ~users[q.user].existe
       THEN /\ Respond(q, 500)
            /\ UNCHANGED users
       ELSE /\ users' = [users EXCEPT ![q.user].tokenVersion = q.usr.tokenVersion + 1]
            /\ Respond(q, 200)
    /\ UNCHANGED <<tokens, now, courses, reservations>>

\* PUT /api/auth/change-password with the token <<u, v>> arrives:
\* authenticateToken
ChangeAuth(u, v) ==
    /\ <<u, v>> \in tokens
    /\ LET q == [NewReq EXCEPT !.op = "changepw", !.user = u, !.tokenVersion = v,
                               !.usr = users[u]]
       IN IF ~authenticateToken(u, v)
          THEN Add([q EXCEPT !.pc = "done", !.status = 401])
          ELSE Add([q EXCEPT !.pc = "w_find"])
    /\ UNCHANGED <<users, tokens, now, courses, reservations>>

\* User.findById(req.user._id) and compararContraseña (ok tells that the
\* current password is right)
ChangeFind(q) ==
    /\ q.pc = "w_find"
    /\ \E ok \in BOOLEAN :
         IF ~users[q.user].existe
         THEN Respond(q, 500)
         ELSE IF ~ok
         THEN Respond(q, 401)
         ELSE /\ users[q.user].tokenVersion < MaxVersion
              /\ Put(q, [q EXCEPT !.pc = "w_pass", !.usr = users[q.user]])
    /\ UNCHANGED <<users, tokens, now, courses, reservations>>

\* user.save() of the new password
ChangePass(q) ==
    /\ q.pc = "w_pass"
    /\ IF ~users[q.user].existe
       THEN Respond(q, 500)
       ELSE Put(q, [q EXCEPT !.pc = "w_inval"])
    /\ UNCHANGED <<users, tokens, now, courses, reservations>>

\* user.invalidarTokens() on the document loaded by ChangeFind
ChangeInvalidar(q) ==
    /\ q.pc = "w_inval"
    /\ IF ~users[q.user].existe
       THEN /\ Respond(q, 500)
            /\ UNCHANGED users
       ELSE /\ users' = [users EXCEPT ![q.user].tokenVersion = q.usr.tokenVersion + 1]
            /\ Respond(q, 200)
    /\ UNCHANGED <<tokens, now, courses, reservations>>

(* ---- PUT /api/users/admin/:id/toggle-status ---- *)

\* The request arrives: authenticateToken and requireAdmin
ToggleAuth(u, v, id) ==
    /\ <<u, v>> \in tokens
    /\ LET q == [NewReq EXCEPT !.op = "toggle", !.user = u, !.tokenVersion = v,
                               !.objetivo = id]
       IN IF ~authenticateToken(u, v)
          THEN Add([q EXCEPT !.pc = "done", !.status = 401])
          ELSE IF rol(u) # "admin"
          THEN Add([q EXCEPT !.pc = "done", !.status = 403])
          ELSE Add([q EXCEPT !.pc = "t_find"])
    /\ UNCHANGED <<users, tokens, now, courses, reservations>>

\* User.findById(req.params.id)
ToggleFind(q) ==
    /\ q.pc = "t_find"
    /\ IF ~users[q.objetivo].existe
       THEN Respond(q, 404)
       ELSE Put(q, [q EXCEPT !.pc = "t_save", !.usr = users[q.objetivo]])
    /\ UNCHANGED <<users, tokens, now, courses, reservations>>

\* user.activo = !user.activo and save()
ToggleSave(q) ==
    /\ q.pc = "t_save"
    /\ IF ~users[q.objetivo].existe
       THEN /\ Respond(q, 500)
            /\ UNCHANGED users
       ELSE /\ users' = [users EXCEPT ![q.objetivo].activo = ~q.usr.activo]
            /\ Respond(q, 200)
    /\ UNCHANGED <<tokens, now, courses, reservations>>

(* ---- DELETE /api/users/admin/:id ---- *)

\* The request arrives: authenticateToken and requireAdmin
DeleteUserAuth(u, v, id) ==
    /\ <<u, v>> \in tokens
    /\ LET q == [NewReq EXCEPT !.op = "deluser", !.user = u, !.tokenVersion = v,
                               !.objetivo = id]
       IN IF ~authenticateToken(u, v)
          THEN Add([q EXCEPT !.pc = "done", !.status = 401])
          ELSE IF rol(u) # "admin"
          THEN Add([q EXCEPT !.pc = "done", !.status = 403])
          ELSE Add([q EXCEPT !.pc = "e_find"])
    /\ UNCHANGED <<users, tokens, now, courses, reservations>>

\* User.findById(req.params.id) and the check that it is not the requester
DeleteUserFind(q) ==
    /\ q.pc = "e_find"
    /\ IF ~users[q.objetivo].existe
       THEN Respond(q, 404)
       ELSE IF q.objetivo = q.user
       THEN Respond(q, 400)
       ELSE Put(q, [q EXCEPT !.pc = "e_delete", !.usr = users[q.objetivo]])
    /\ UNCHANGED <<users, tokens, now, courses, reservations>>

\* User.findByIdAndDelete(req.params.id)
DeleteUserDo(q) ==
    /\ q.pc = "e_delete"
    /\ users' = [users EXCEPT ![q.objetivo] = NoUser]
    /\ Respond(q, 200)
    /\ UNCHANGED <<tokens, now, courses, reservations>>

(* ---- the clock ---- *)

Tick ==
    /\ now < MaxTime
    /\ now' = now + 1
    /\ UNCHANGED <<users, tokens, courses, reservations, req>>

(* ---- specification ---- *)

\* The users as registration leaves them: active, tokenVersion 0.  The
\* requests on reservations and courses are taken after authentication, so
\* no token is tracked for them.
InitUsers ==
    /\ users = [u \in Usuarios |-> [existe |-> TRUE, activo |-> TRUE, tokenVersion |-> 0]]
    /\ tokens = {}

RECURSIVE SentBag(_, _)
\* the bag of create requests sent by the users us[1], ..., us[n] for course c1
SentBag(us, n) ==
    IF n = 0 THEN EmptyBag
    ELSE SentBag(us, n - 1) (+)
         SetToBag({[NewReq EXCEPT !.op = "create", !.user = us[n], !.curso = "c1"]})

\* Courses as the course pre('save') hook leaves a new course: every seat free.
InitCourses ==
    \E m \in 1 .. MaxCupo, e \in {"activo", "borrador"} :
        courses = [c \in Cursos |->
            [existe |-> TRUE, cupoMaximo |-> m, cupoDisponible |-> m,
             estado |-> e, fechaInicio |-> FechaInicioCurso, precio |-> 1]]

Init ==
    /\ now = 0
    /\ InitUsers
    /\ InitCourses
    /\ reservations = <<>>
    /\ req = EmptyBag

\* A response is observed in the state where it is sent; the request is gone
\* before anything else happens.
NoDone == \A q \in Requests : q.pc # "done"

Retire(q) ==
    /\ q.pc = "done"
    /\ req' = req (-) SetToBag({q})
    /\ UNCHANGED <<users, tokens, now, courses, reservations>>

\* A request arrives and its handler runs up to its first await.
Arrive ==
    \/ \E u \in Usuarios, c \in Cursos : CreateFind(u, c)
    \/ \E u \in Usuarios, id \in ResIds, m \in Motivos : CancelFind(u, id, m)
    \/ \E u \in Usuarios, id \in ResIds : ConfirmFind(u, id)
    \/ \E u \in Usuarios, id \in ResIds : CompleteFind(u, id)

\* A rate request arrives and its handler runs up to its first await.
ArriveRate ==
    \E u \in Usuarios, id \in ResIds, cal \in Calificaciones, com \in Comentarios :
        RateFind(u, id, cal, com)

\* A handler in flight resumes after an await.
Resume(q) ==
    \/ CreateUserHas(q)
    \/ CreatePreSave(q)
    \/ CreateInsert(q)
    \/ CreateReservarCupo(q)
    \/ CancelPopulate(q)
    \/ CancelSave(q)
    \/ CancelLiberarCupo(q)
    \/ ConfirmSave(q)
    \/ CompleteSave(q)

\* The requests that create, cancel, confirm and complete reservations arrive
\* at any time and their handlers interleave at every await.
Next ==
    \/ \E q \in Requests : Retire(q)
    \/ NoDone /\ Tick
    \/ NoDone /\ Arrive
    \/ NoDone /\ \E q \in Requests : Resume(q)

Spec == Init /\ [][Next]_vars

\* Requests served one at a time: a request arrives only when no other is
\* being served, and is served within one instant of the clock.
NextSeq ==
    \/ \E q \in Requests : Retire(q)
    \/ req = EmptyBag /\ Tick
    \/ req = EmptyBag /\ Arrive
    \/ req = EmptyBag /\ ArriveRate
    \/ NoDone /\ \E q \in Requests : Resume(q)
    \/ NoDone /\ \E q \in Requests : RateSave(q)

SpecSeq == Init /\ [][NextSeq]_vars

\* All requests on reservations, rate requests included, interleaved at every
\* await, on an active course and within one instant of the clock.
InitAll ==
    /\ now = 0
    /\ InitUsers
    /\ \E m \in 1 .. MaxCupo :
          courses = [c \in Cursos |->
              [existe |-> TRUE, cupoMaximo |-> m, cupoDisponible |-> m,
               estado |-> "activo", fechaInicio |-> FechaInicioCurso, precio |-> 1]]
    /\ reservations = <<>>
    /\ req = EmptyBag

NextAll ==
    \/ \E q \in Requests : Retire(q)
    \/ NoDone /\ Arrive
    \/ NoDone /\ ArriveRate
    \/ NoDone /\ \E q \in Requests : Resume(q)
    \/ NoDone /\ \E q \in Requests : RateSave(q)

SpecAll == InitAll /\ [][NextAll]_vars

\* An admin's update of the course arrives and runs up to its first await.
ArriveUpdate ==
    \E u \in Usuarios, c \in Cursos, f \in Campos, v \in Valores : UpdateFind(u, c, f, v)

\* The requests on reservations and the admin's updates of the course,
\* interleaved at every await, on an active course and within one instant of
\* the clock.
NextAdmin ==
    \/ \E q \in Requests : Retire(q)
    \/ NoDone /\ Arrive
    \/ NoDone /\ ArriveUpdate
    \/ NoDone /\ \E q \in Requests : Resume(q)
    \/ NoDone /\ \E q \in Requests : UpdateSave(q)

SpecAdmin == InitAll /\ [][NextAdmin]_vars

\* A request that creates or deletes a course arrives and runs up to its
\* first await.
ArriveCurso ==
    \/ \E u \in Usuarios, c \in Cursos, m \in Valores, e \in EstadosNuevos :
          PostCourse(u, c, m, e)
    \/ \E u \in Usuarios, c \in Cursos : DeleteFind(u, c)

\* The handler of such a request resumes after its await.
ResumeCurso(q) ==
    \/ PostCourseSave(q)
    \/ DeleteCourse(q)

\* The requests on reservations and the admin's creations and deletions of
\* courses, interleaved at every await, within one instant of the clock.
NextCursos ==
    \/ \E q \in Requests : Retire(q)
    \/ NoDone /\ Arrive
    \/ NoDone /\ ArriveCurso
    \/ NoDone /\ \E q \in Requests : Resume(q)
    \/ NoDone /\ \E q \in Requests : ResumeCurso(q)

\* The collection of courses is empty, or holds a course with every seat free.
InitCursos ==
    /\ now = 0
    /\ InitUsers
    /\ \/ courses = [c \in Cursos |-> NoCourse]
       \/ \E m \in 1 .. MaxCupo :
             courses = [c \in Cursos |->
                 [existe |-> TRUE, cupoMaximo |-> m, cupoDisponible |-> m,
                  estado |-> "activo", fechaInicio |-> FechaInicioCurso, precio |-> 1]]
    /\ reservations = <<>>
    /\ req = EmptyBag

SpecCursos == InitCursos /\ [][NextCursos]_vars

\* A request on the users arrives and runs up to its first await after
\* authentication; a request other than login carries a token issued earlier.
ArriveAuth ==
    \/ \E u \in Usuarios, ok \in BOOLEAN : LoginFind(u, ok)
    \/ \E u \in Usuarios, v \in 0 .. MaxVersion : MeAuth(u, v)
    \/ \E u \in Usuarios, v \in 0 .. MaxVersion : LogoutAuth(u, v)
    \/ \E u \in Usuarios, v \in 0 .. MaxVersion : ChangeAuth(u, v)
    \/ \E u \in Usuarios, v \in 0 .. MaxVersion, id \in Usuarios : ToggleAuth(u, v, id)
    \/ \E u \in Usuarios, v \in 0 .. MaxVersion, id \in Usuarios : DeleteUserAuth(u, v, id)

\* The handler of such a request resumes after an await.
ResumeAuth(q) ==
    \/ LoginAcceso(q)
    \/ LogoutSave(q)
    \/ ChangeFind(q)
    \/ ChangePass(q)
    \/ ChangeInvalidar(q)
    \/ ToggleFind(q)
    \/ ToggleSave(q)
    \/ DeleteUserFind(q)
    \/ DeleteUserDo(q)

\* The users are registered and nobody has logged in.
InitAuth ==
    /\ now = 0
    /\ InitUsers
    /\ courses = [c \in Cursos |-> NoCourse]
    /\ reservations = <<>>
    /\ req = EmptyBag

\* Logins, logouts, password changes, authenticated requests and the admin's
\* requests on users, interleaved at every await.
NextAuth ==
    \/ \E q \in Requests : Retire(q)
    \/ NoDone /\ ArriveAuth
    \/ NoDone /\ \E q \in Requests : ResumeAuth(q)

SpecAuth == InitAuth /\ [][NextAuth]_vars

\* A burst of MaxReq create requests sent at once for the same course, by the
\* same or by different users, before any of them is served; nothing else
\* happens until all have been answered.
InitBurst ==
    /\ now = 0
    /\ InitUsers
    /\ InitCourses
    /\ reservations = <<>>
    /\ \E us \in [1 .. MaxReq -> Usuarios] :
          req = SentBag(us, MaxReq)

NextBurst ==
    \E q \in Requests :
        \/ CreateFindSent(q)
        \/ CreateUserHas(q)
        \/ CreatePreSave(q)
        \/ CreateInsert(q)
        \/ CreateReservarCupo(q)

SpecBurst == InitBurst /\ [][NextBurst]_vars

\* the confirmed reservation that the two cancel requests name
LaReserva == <<"u1", "c1", 0>>

\* A course whose seats are held by the confirmed reservation of u1 and
\* possibly by one of adm, and two cancel requests for u1's reservation, of
\* its owner or of the admin, sent before either is served.
InitCancelTwice ==
    /\ now = 0
    /\ InitUsers
    /\ \E m \in 1 .. MaxCupo, otros \in SUBSET {<<"adm", "c1", 0>>} :
          /\ Cardinality(otros) + 1 <= m
          /\ reservations =
                [i \in {LaReserva} \cup otros |->
                    [NuevaReserva(i[1], i[2], [precio |-> 1]) EXCEPT !.estado = "confirmada"]]
          /\ courses = [c \in Cursos |->
                [existe |-> TRUE, cupoMaximo |-> m,
                 cupoDisponible |-> m - (Cardinality(otros) + 1),
                 estado |-> "activo", fechaInicio |-> FechaInicioCurso, precio |-> 1]]
    /\ \E u1 \in Usuarios, u2 \in Usuarios, m1 \in Motivos :
          req = SetToBag({[NewReq EXCEPT !.op = "cancel", !.user = u1,
                                        !.rid = LaReserva, !.motivo = m1]})
                (+) SetToBag({[NewReq EXCEPT !.op = "cancel", !.user = u2,
                                            !.rid = LaReserva, !.motivo = m1]})

\* The two cancel handlers interleave at every await; nothing else happens.
NextCancelTwice ==
    \E q \in Requests :
        \/ CancelFindSent(q)
        \/ CancelPopulate(q)
        \/ CancelSave(q)
        \/ CancelLiberarCupo(q)

SpecCancelTwice == InitCancelTwice /\ [][NextCancelTwice]_vars

(***************************************************************************)
(* Properties                                                              *)
(***************************************************************************)

Done(q) == q.pc = "done"

\* the cutoff of cancellations of the course as the handler q read it
Limite(q) == q.course.fechaInicio - DiasAntes

\* q is a cancel request of the owner or of an admin that got as far as the guard
CancelJudged(q) == q.op = "cancel" /\ q.ahora # NullDate

\* number of requests of the bag that are in the set S
NumReq(S) == BagCardinality([q \in S |-> req[q]])

Activas(c) ==
    {i \in DOMAIN reservations : reservations[i].curso = c /\ estaActiva(reservations[i])}

(* ---- C1 ---- *)

CupoInRange ==
    \A c \in Cursos :
        /\ 0 <= courses[c].cupoDisponible
        /\ courses[c].cupoDisponible <= courses[c].cupoMaximo

CupoStepAtMostOne ==
    \A c \in Cursos :
        /\ courses'[c].cupoDisponible - courses[c].cupoDisponible <= 1
        /\ courses[c].cupoDisponible - courses'[c].cupoDisponible <= 1

\* C1: for every course, in every reachable state of every interleaving of
\* requests, 0 <= cupoDisponible <= cupoMaximo, and every single step changes
\* cupoDisponible by at most 1.
C1_Claim == [][CupoInRange /\ CupoInRange' /\ CupoStepAtMostOne]_vars

(* ---- C2 ---- *)

\* C2: when MaxReq create requests of distinct users are served concurrently
\* for an active course with K < MaxReq seats left, then once all are answered
\* exactly K of them have succeeded and cupoDisponible is 0.
C2_Claim ==
    \A c \in Cursos :
        ( /\ \A q \in Requests : Done(q) /\ q.curso = c
          /\ Cardinality({q.user : q \in Requests}) = MaxReq
          /\ courses[c].estado = "activo"
          /\ courses[c].cupoMaximo < MaxReq )
        => /\ NumReq({q \in Requests : q.status = 201}) = courses[c].cupoMaximo
           /\ courses[c].cupoDisponible = 0

(* ---- C3 ---- *)

\* C3: of the create requests issued concurrently for the same (user, course)
\* pair at most one succeeds, and once all are answered the course's
\* cupoDisponible has gone down by exactly 1 for a success (and by nothing
\* without one), whatever the interleaving.
C3_Thm ==
    \A c \in Cursos :
        Cardinality({q.user : q \in Requests}) = 1
        => /\ NumReq({q \in Requests : q.status = 201}) <= 1
           /\ NumReq({q \in Requests : q.cupoWritten}) <= 1
           /\ (\A q \in Requests : Done(q))
              => courses[c].cupoDisponible =
                   courses[c].cupoMaximo - NumReq({q \in Requests : q.status = 201})

\* two requests of one user have been answered: one succeeded, the other was
\* refused by the store's unique index
C3_Witness ==
    /\ Cardinality({q.user : q \in Requests}) = 1
    /\ \A q \in Requests : Done(q)
    /\ \E q \in Requests : q.status = 201
    /\ \E q \in Requests : q.status = 400 /\ q.res.usuario # "" /\ q.inserted = NoId

(* ---- C4 ---- *)

\* C4: in every reachable state, for every (user, course) pair there is at
\* most one reservation document, whatever its state.
C4_Thm ==
    \A i, j \in DOMAIN reservations :
        (reservations[i].usuario = reservations[j].usuario
         /\ reservations[i].curso = reservations[j].curso) => i = j

\* a create request passed both pre-checks because the user's reservation is
\* no longer active, and its insert was refused by the unique index
C4_Witness ==
    \E q \in Requests :
        /\ q.op = "create" /\ Done(q) /\ q.status = 400
        /\ q.res.usuario # "" /\ q.inserted = NoId
        /\ \E i \in DOMAIN reservations :
              /\ reservations[i].usuario = q.user
              /\ reservations[i].curso = q.curso
              /\ reservations[i].estado \in {"cancelada", "completada"}

(* ---- C5 ---- *)

\* C5: whenever no request is being served, for every course cupoDisponible
\* equals cupoMaximo minus the number of its active (pending or confirmed)
\* reservations.
C5_Claim ==
    req = EmptyBag =>
        \A c \in Cursos :
            courses[c].cupoDisponible = courses[c].cupoMaximo - Cardinality(Activas(c))

(* ---- C6 ---- *)

\* C6: create is all-or-nothing: a create request answered with a failure has
\* inserted no reservation and has not changed cupoDisponible; one answered
\* with success has inserted its reservation, which is stored as pending, and
\* has taken exactly one seat off cupoDisponible.
C6_Claim ==
    \A q \in Requests :
        (q.op = "create" /\ Done(q)) =>
            IF q.status = 201
            THEN /\ q.inserted \in DOMAIN reservations
                 /\ q.cupoWritten
                 /\ q.delta = -1
            ELSE /\ q.inserted = NoId
                 /\ ~q.cupoWritten

(* ---- C7 ---- *)

\* C7: a cancel request answered with a failure has written neither the
\* reservation nor the course.
C7_Claim ==
    \A q \in Requests :
        (q.op = "cancel" /\ Done(q) /\ q.status # 200) =>
            ~q.resWritten /\ ~q.cupoWritten

(* ---- C8 ---- *)

C9_Claim ==
    \A q \in Requests :
        (CancelJudged(q) /\ Done(q)
         /\ q.res.estado \in {"pendiente", "confirmada"} /\ q.ahora < Limite(q)) =>
            /\ q.status = 200
            /\ reservations[q.rid].estado = "cancelada"
            /\ courses[q.curso].cupoDisponible = q.course.cupoDisponible + 1

(* ---- C10 ---- *)

\* C10: a cancel request whose guard reads the clock when fewer than 2 days
\* remain before the course starts is refused, whoever the caller (owner or
\* admin) and whatever the reservation's state, and has written neither the
\* reservation nor the course.
C10_Thm ==
    \A q \in Requests :
        (CancelJudged(q) /\ q.ahora > Limite(q)) =>
            /\ Done(q)
            /\ q.status = 400
            /\ ~q.resWritten
            /\ ~q.cupoWritten

\* an admin's cancel request for another user's confirmed reservation has been
\* refused with fewer than 2 days left
C10_Witness ==
    \E q \in Requests :
        /\ CancelJudged(q) /\ Done(q)
        /\ q.user # q.res.usuario
        /\ q.res.estado = "confirmada"
        /\ q.ahora > Limite(q)
        /\ q.status = 400

(* ---- C11 ---- *)

\* q is a cancel request sent by the owner of the reservation
OwnCancel(q) == CancelJudged(q) /\ q.user = q.res.usuario

\* C11: on a course with cupoMaximo = 1, with requests served one at a time
\* and no admin request in between (the reservation is still pending):
\* A's create succeeds and leaves cupoDisponible 0 and a pending reservation;
\* a create that finds cupoDisponible 0 is rejected; A's cancel more than
\* 2 days before the start succeeds, leaves the reservation cancelled and
\* cupoDisponible 1; a create that then finds the seat free succeeds.
C11_Claim ==
    \A q \in Requests :
        Done(q) =>
            /\ (q.op = "create" /\ q.status = 201 /\ q.course.cupoMaximo = 1) =>
                  /\ courses[q.curso].cupoDisponible = 0
                  /\ reservations[q.inserted].estado = "pendiente"
            /\ (q.op = "create" /\ q.ahora # NullDate
                /\ q.course.cupoDisponible = 0) =>
                  q.status = 400
            /\ (OwnCancel(q) /\ q.res.estado = "pendiente" /\ q.ahora < Limite(q)
                /\ q.course.cupoMaximo = 1 /\ q.course.cupoDisponible = 0) =>
                  /\ q.status = 200
                  /\ reservations[q.rid].estado = "cancelada"
                  /\ courses[q.curso].cupoDisponible = 1
            /\ (q.op = "create" /\ q.res # NoRes /\ q.course.cupoMaximo = 1
                /\ q.course.cupoDisponible = 1
                /\ \A i \in DOMAIN reservations :
                      i = q.inserted \/ reservations[i].usuario # q.user) =>
                  q.status = 201

(* ---- C12 ---- *)

\* the changes of a reservation's stored state that the lifecycle allows
Allowed(a, b) ==
    \/ a = b
    \/ a = "pendiente" /\ b \in {"confirmada", "cancelada"}
    \/ a = "confirmada" /\ b \in {"completada", "cancelada"}

\* a confirm that read a reservation that is not pending, and a complete that
\* read one that is not confirmed, have been refused without a write
WrongStateRefused ==
    \A q \in Requests :
        (Done(q) /\ q.res # NoRes
         /\ \/ q.op = "confirm" /\ q.res.estado # "pendiente"
            \/ q.op = "complete" /\ q.res.estado # "confirmada") =>
            q.status = 400 /\ ~q.resWritten

\* C12: in every execution, interleaved confirm, complete and cancel requests
\* on the same reservation included, every step changes the stored state of a
\* reservation only along pending->confirmed, confirmed->completed,
\* pending->cancelled or confirmed->cancelled (so cancelled and completed are
\* never left), and a confirm of a non-pending or a complete of a
\* non-confirmed reservation is refused and writes nothing.
C12_Claim ==
    [][/\ \A i \in DOMAIN reservations :
             Allowed(reservations[i].estado, reservations'[i].estado)
       /\ WrongStateRefused']_vars

(* ---- C13 ---- *)

\* C13: a rate request on a completed reservation that already carries a
\* rating is refused and leaves the stored rating and comment as they were.
C13_Claim ==
    \A q \in Requests :
        (q.op = "rate" /\ Done(q) /\ q.res.estado = "completada"
         /\ q.res.calificacion # NoCalificacion) =>
            /\ q.status # 200
            /\ ~q.resWritten
            /\ reservations[q.rid].calificacion = q.res.calificacion
            /\ reservations[q.rid].comentario = q.res.comentario

(* ---- C14 ---- *)

\* C14: a rate request that reads a reservation in state pending, confirmed
\* or cancelled is refused and writes nothing (rating, comment and state stay
\* as they were), and a rate request with a rating outside 1..5 is refused
\* and writes nothing, whatever the reservation; a rate request that goes on
\* to write has read a completed reservation and carries a rating in 1..5.
C14_Thm ==
    \A q \in Requests :
        q.op = "rate" =>
            /\ (q.res # NoRes /\ q.res.estado # "completada") =>
                  Done(q) /\ q.status \in {400, 403} /\ ~q.resWritten
            /\ (q.calificacion < CalificacionMinima
                \/ q.calificacion > CalificacionMaxima) =>
                  Done(q) /\ q.status = 400 /\ ~q.resWritten
            /\ (q.pc = "r_save" \/ q.resWritten) =>
                  /\ q.res.estado = "completada"
                  /\ q.calificacion \in CalificacionMinima .. CalificacionMaxima

\* the owner's rate request, with a rating in range, for their cancelled
\* reservation has been refused
C14_Witness ==
    \E q \in Requests :
        /\ q.op = "rate" /\ Done(q)
        /\ q.user = q.res.usuario
        /\ q.res.estado = "cancelada"
        /\ q.calificacion = CalificacionMaxima
        /\ q.status = 400
        /\ reservations[q.rid].calificacion = NoCalificacion

(* ---- C15 ---- *)

\* the course as the create request q read it was reservable at the instant
\* of the check: active, not yet started, at least one seat left
ReservableWhenChecked(q) ==
    /\ q.course.estado = "activo"
    /\ q.course.fechaInicio > q.ahora
    /\ q.course.cupoDisponible > 0

\* C15: a create request that finds the course not reservable (status not
\* active, or now not before its start, or cupoDisponible 0) is rejected in
\* that step, has inserted no reservation and has not written cupoDisponible;
\* a create request that inserts, writes cupoDisponible or succeeds found all
\* three conditions true when it checked them.
C15_Thm ==
    \A q \in Requests :
        (q.op = "create" /\ q.ahora # NullDate) =>
            /\ ~ReservableWhenChecked(q) =>
                  /\ Done(q) /\ q.status = 400
                  /\ q.res = NoRes /\ q.inserted = NoId /\ ~q.cupoWritten
            /\ (q.status = 201 \/ q.inserted # NoId \/ q.cupoWritten) =>
                  ReservableWhenChecked(q)

\* a create request for an active course that has not started has been
\* rejected because no seat is left, after another user's create took it
C15_Witness ==
    \E q \in Requests :
        /\ q.op = "create" /\ Done(q) /\ q.status = 400
        /\ q.course.estado = "activo"
        /\ q.course.fechaInicio > q.ahora
        /\ q.course.cupoDisponible = 0
        /\ \E i \in DOMAIN reservations : reservations[i].usuario # q.user
        /\ \A i \in DOMAIN reservations : reservations[i].usuario # q.user

(* ---- C16 ---- *)

\* The create request q passed the handler's pre-check (it built its
\* document) and the pre('save') query (whose refusal is answered 500), and
\* its insert was refused by the unique index.
LostToIndex(q) ==
    /\ q.op = "create" /\ Done(q)
    /\ q.res # NoRes /\ q.inserted = NoId
    /\ q.status # 500

\* C16: a create request whose insert is refused by the unique index ends
\* with the outcome of a request refused by the pre-check (409), and has not
\* written cupoDisponible.
C16_Claim ==
    \A q \in Requests :
        LostToIndex(q) => q.status = 409 /\ ~q.cupoWritten

(* ---- C17 ---- *)

\* the documents, other than the one q inserted, of q's user and course that
\* are cancelled or completed
PastReservations(q) ==
    {i \in DOMAIN reservations :
        /\ i # q.inserted
        /\ reservations[i].usuario = q.user
        /\ reservations[i].curso = q.curso
        /\ reservations[i].estado \in {"cancelada", "completada"}}

\* C17: while a user has a cancelled or completed reservation for a course,
\* no create request of that user for that course succeeds, inserts a
\* document or writes cupoDisponible, and the user has no second document
\* for the course.
C17_Thm ==
    \A q \in Requests :
        (q.op = "create" /\ PastReservations(q) # {}) =>
            /\ q.status # 201
            /\ q.inserted = NoId
            /\ ~q.cupoWritten
            /\ Cardinality({i \in DOMAIN reservations :
                               /\ reservations[i].usuario = q.user
                               /\ reservations[i].curso = q.curso}) = 1

\* a user whose reservation was cancelled asked again while a seat was free:
\* the request passed the checks of the course and of active reservations,
\* and was refused at the insert
C17_Witness ==
    \E q \in Requests :
        /\ q.op = "create" /\ Done(q) /\ q.status = 400
        /\ q.res # NoRes
        /\ q.course.cupoDisponible > 0
        /\ courses[q.curso].cupoDisponible = q.course.cupoDisponible
        /\ \E i \in PastReservations(q) : reservations[i].estado = "cancelada"

(* ---- C18 ---- *)

\* q has written to the store or has been answered with success
Effective(q) ==
    q.status \in {200, 201} \/ q.resWritten \/ q.cupoWritten \/ q.inserted # NoId

\* C18: a cancel request writes or succeeds only if its requester is the
\* reservation's owner or an admin, and a rate request only if its requester
\* is the owner (an admin who is not the owner is refused); a requester who
\* is neither is refused with 403 as soon as the check runs, and a refused
\* request has written neither a reservation nor cupoDisponible.
C18_Thm ==
    \A q \in Requests :
        /\ (q.op = "cancel" /\ q.res # NoRes /\ q.pc # "x_populate") =>
              IF q.user = q.res.usuario \/ rol(q.user) = "admin"
              THEN q.status # 403
              ELSE Done(q) /\ q.status = 403 /\ ~Effective(q)
        /\ (q.op = "rate" /\ q.res # NoRes) =>
              IF q.user = q.res.usuario
              THEN q.status # 403
              ELSE Done(q) /\ q.status = 403 /\ ~Effective(q)
        /\ q.status = 403 => ~Effective(q)

\* an admin's rate request for another user's completed reservation has been
\* refused, and the reservation carries no rating
C18_Witness ==
    \E q \in Requests :
        /\ q.op = "rate" /\ Done(q) /\ q.status = 403
        /\ rol(q.user) = "admin"
        /\ q.res.usuario # q.user
        /\ q.res.estado = "completada"
        /\ reservations[q.rid].calificacion = NoCalificacion

(* ---- C19 ---- *)

\* the step leaves the request q in the bag, answered, and q was not there
\* before: the step is the one that answers q
Answers(q) ==
    /\ q \in DOMAIN req'
    /\ q.pc = "done"
    /\ req'[q] > (IF q \in DOMAIN req THEN req[q] ELSE 0)

\* C19: every step that raises a course's cupoDisponible is the step that
\* answers a cancel request for that course with success, and every step
\* that lowers it is the step that answers a create request for that course
\* with success; so confirm, complete and rate requests and failed requests
\* leave cupoDisponible of every course unchanged.
C19_Claim ==
    [][\A c \in Cursos :
          /\ courses'[c].cupoDisponible > courses[c].cupoDisponible =>
                \E q \in DOMAIN req' :
                    Answers(q) /\ q.op = "cancel" /\ q.curso = c /\ q.status = 200
          /\ courses'[c].cupoDisponible < courses[c].cupoDisponible =>
                \E q \in DOMAIN req' :
                    Answers(q) /\ q.op = "create" /\ q.curso = c /\ q.status = 201
      ]_vars

(* ---- C20 ---- *)

\* C20: the step that answers an admin's update of a course with success
\* leaves the stored course with 0 <= cupoDisponible <= cupoMaximo, and the
\* step that answers one with a failure leaves the courses unchanged.
C20_Claim ==
    [][\A q \in DOMAIN req' :
          (Answers(q) /\ q.op = "update") =>
              IF q.status = 200 THEN CupoInRange' ELSE courses' = courses
      ]_vars

(* ---- C21 ---- *)

\* C21: in every reachable state, the course that a reservation document
\* references exists: no course is deleted while a reservation references it.
C21_Claim ==
    \A i \in DOMAIN reservations : courses[reservations[i].curso].existe

(* ---- C22 ---- *)

\* C22: the step that answers an administrator's POST /api/courses with a
\* cupoMaximo from 1 to 1000 and a start date in the future (a body without
\* cupoDisponible) answers 201 and leaves the new course stored with
\* cupoDisponible = cupoMaximo.
C22_Claim ==
    [][\A q \in DOMAIN req' :
          ( /\ Answers(q)
            /\ q.op = "newcourse"
            /\ rol(q.user) = "admin"
            /\ q.valor >= CupoMinimo /\ q.valor <= CupoLimite
            /\ q.ahora # NullDate /\ q.ahora < FechaInicioCurso )
          => /\ q.status = 201
             /\ courses'[q.curso].existe
             /\ courses'[q.curso].cupoMaximo = q.valor
             /\ courses'[q.curso].cupoDisponible = q.valor
      ]_vars

(* ---- C23 ---- *)

\* C23: a create request answered 201 has inserted a reservation, every new
\* reservation document is inserted by a create request, and the document a
\* create request inserts is pendiente, has no fechaCancelacion and no
\* calificacion, and has precioPagado equal to the precio of the course as
\* the request read it.
C23_Thm ==
    [][/\ \A q \in DOMAIN req' :
            (q.op = "create" /\ q.status = 201) => q.inserted \in DOMAIN reservations'
       /\ \A i \in DOMAIN reservations' \ DOMAIN reservations :
            \E q \in DOMAIN req' :
                /\ q.op = "create"
                /\ q.inserted = i
                /\ reservations'[i].usuario = q.user
                /\ reservations'[i].curso = q.curso
                /\ reservations'[i].estado = "pendiente"
                /\ reservations'[i].fechaCancelacion = NullDate
                /\ reservations'[i].calificacion = NoCalificacion
                /\ reservations'[i].precioPagado = q.course.precio
                /\ q.course.precio = courses[q.curso].precio
      ]_vars

\* a create request has been answered 201 and the reservation it inserted is
\* in the store with the price of the course
C23_Witness ==
    \E q \in Requests :
        /\ q.op = "create"
        /\ Done(q)
        /\ q.status = 201
        /\ q.inserted \in DOMAIN reservations
        /\ reservations[q.inserted].precioPagado = courses[q.curso].precio
        /\ reservations[q.inserted].precioPagado > 0

(* ---- C24 ---- *)

\* the reservations of course c that are not cancelled
NoCanceladas(c) ==
    {i \in DOMAIN reservations :
        reservations[i].curso = c /\ reservations[i].estado # "cancelada"}

\* C24: whatever the interleaving of the create and cancel requests served so
\* far, once every request has been answered the number of non-cancelled
\* reservations of a course is at most its cupoMaximo: two users never both
\* obtain the last seat.
C24_Claim ==
    (\A q \in Requests : Done(q)) =>
        \A c \in Cursos : Cardinality(NoCanceladas(c)) <= courses[c].cupoMaximo

(* ---- C25 ---- *)

\* the reservations of course c that hold a seat: pendiente, confirmada or
\* completada
ConCupo(c) ==
    {i \in DOMAIN reservations :
        /\ reservations[i].curso = c
        /\ reservations[i].estado \in {"pendiente", "confirmada", "completada"}}

CupoAntes(c) ==
    courses[c].cupoMaximo
        - Cardinality({i \in DOMAIN reservations : reservations[i].curso = c})

\* C26: whatever the interleaving of two cancel requests for the same
\* confirmed reservation, cupoDisponible of its course is never more than 1
\* above its value before the two requests.
C26_Claim ==
    \A c \in Cursos : courses[c].cupoDisponible <= CupoAntes(c) + 1

(* ---- C27 ---- *)

\* C27: in every reachable state, the fechaCancelacion of a reservation is
\* non-null if and only if the reservation is cancelada.
C27_Claim ==
    \A i \in DOMAIN reservations :
        (reservations[i].fechaCancelacion # NullDate) <=> (reservations[i].estado = "cancelada")

(* ---- C28 ---- *)

\* C28: in every reachable state, a reservation that has a calificacion is
\* completada and its calificacion is between 1 and 5.
C28_Claim ==
    \A i \in DOMAIN reservations :
        reservations[i].calificacion # NoCalificacion =>
            /\ reservations[i].estado = "completada"
            /\ reservations[i].calificacion >= CalificacionMinima
            /\ reservations[i].calificacion <= CalificacionMaxima

(* ---- C29 ---- *)

\* the request q arrives in this step
Llega(q) ==
    /\ BagCardinality(req') > BagCardinality(req)
    /\ CopiesIn(q, req') > CopiesIn(q, req)

\* the request q carries a token and authenticateToken let it through
Autenticada(q) ==
    /\ q.op \in {"me", "logout", "changepw", "toggle", "deluser"}
    /\ q.status # 401

\* C29: no step lowers the tokenVersion of a user, and the step in which
\* authenticateToken lets a request through finds the token's user existing
\* and active and the token's tokenVersion equal to the user's; hence a token
\* whose tokenVersion a logout or a password change has left behind is never
\* accepted again.
C29_Claim ==
    [][/\ \A u \in Usuarios :
            (users[u].existe /\ users'[u].existe) =>
                users'[u].tokenVersion >= users[u].tokenVersion
       /\ \A q \in DOMAIN req' :
            (Llega(q) /\ Autenticada(q)) =>
                /\ users[q.user].existe
                /\ users[q.user].activo
                /\ q.tokenVersion = users[q.user].tokenVersion
      ]_vars
====
